---- MODULE Spec2Model ----
(***************************************************************************)
(* A model of the live session engine of Iamnotelier:                      *)
(*   - src/unnamed/part_000 (the App component): startSession, endSession, *)
(*     cleanupSession, handleDisconnect;                                   *)
(*   - src/services/geminiLiveService.ts (the GeminiLiveService singleton):*)
(*     connect, disconnect, the channel callbacks, handleServerMessage.    *)
(*                                                                         *)
(* JavaScript runs one task at a time.  An async function is a frame with  *)
(* a position (pc).  A frame that awaits a settled promise, or the return  *)
(* of an async call, continues in a microtask; the microtask queue (mq) is *)
(* first-in first-out and is drained before any further task (a click, a   *)
(* channel event, a device result) runs.  A frame that awaits a pending    *)
(* promise waits in `blocked`, in the order the awaits were reached, which *)
(* is the order the continuations are queued in when the promise settles.  *)
(*                                                                         *)
(* handleServerMessage is such a frame too: it is suspended at the decode  *)
(* of each audio chunk, whose latency is not fixed by the service, so the  *)
(* suspended frames resume in any order while the output clock advances.   *)
(* Spec is the session lifecycle, FairSpec the lifecycle with the event    *)
(* loop's progress, SpecPlay the playback scheduler of a connected session.*)
(* SpecLog is the transcript of a connected session (handleLog and the     *)
(* effect that extracts the score), SpecCap the lifecycle with the capture *)
(* pipelines running, SpecSession the lifecycle with the server's audio.   *)
(***************************************************************************)
EXTENDS Integers, Sequences, FiniteSets, Bags, TLC

\* ---------------------------------------------------------------- bounds
\* startSession invocations that pass the double-click guard
MaxStarts == 3
\* endSession invocations
MaxStops == 1
\* events the remote end starts: error events, and close events of a channel the
\* client has not closed itself
MaxErrors == 1

\* synthesized-audio chunks the server sends
MaxChunks == 2
\* messages the server flags as interrupted
MaxIntr == 2
\* ticks of the output context's clock
MaxClock == 1

\* transcript fragments delivered to handleLog
MaxFrags == 3

\* audio blocks and video frames captured
MaxCaps == 2

\* startSession invocations that the double-click guard turns away
MaxIgnored == 1

Ids == 1..MaxStarts

\* the durations of the audio chunks, in clock ticks
Durations == {1, 2}

VARIABLES
  \* ---- App state (part_000 lines 9-23)
  status,          \* SessionStatus: "IDLE" | "CONNECTING" | "ACTIVE" | "ERROR"
  logs,            \* LogEntry[]: sequence of [id, type, message]
  lieProbability,  \* number
  lastAnalysis,    \* string
  inputVolume,     \* number
  streamRef,       \* streamRef.current: 0 (null) or the id of a MediaStream
  srcObject,       \* videoRef.current.srcObject: 0 (null) or a stream id
  \* ---- GeminiLiveService fields (geminiLiveService.ts lines 6-19)
  ai,              \* this.ai # null
  sessionPromise,  \* 0 (null) or the id of the promise ai.live.connect returned
  inCtx,           \* this.inputAudioContext: 0 (null) or a context id
  outCtx,          \* this.outputAudioContext: 0 (null) or a context id
  processor,       \* this.processor / this.inputSource: 0 or a node id
  videoInterval,   \* this.videoInterval: 0 (null) or a timer id
  \* ---- the platform and the remote service
  live,            \* streams whose tracks are live (not stopped)
  procOn,          \* script processors that are connected (onaudioprocess fires)
  procCtx,         \* per processor: the input context it was created on
  timers,          \* setInterval timers that are not cleared
  chan,            \* per connect call: the state of its remote channel
  prom,            \* per connect call: the state of the promise it returned
  \* ---- control
  mq,              \* the microtask queue: frames about to continue, in order
  blocked,         \* frames awaiting a pending promise, in the order they began
  pending,         \* frames awaiting the platform (getUserMedia)
  nStarts,         \* startSession invocations past the guard so far
  nStops,          \* endSession invocations so far
  nErrors,         \* events the remote end started so far
  nIgnored,        \* startSession invocations that returned at the guard so far
  \* ---- playback (geminiLiveService.ts lines 9-13, 196-231)
  clock,           \* this.outputAudioContext.currentTime
  nextStartTime,   \* this.nextStartTime
  sources,         \* this.sources: the chunks in the live set
  stopped,         \* the chunks source.stop() was called on
  decoding,        \* handleServerMessage frames at `await decodeAudioData`
  sched,           \* the source.start calls so far, in order
  nChunks,         \* audio chunks received so far (a chunk's id: its arrival rank)
  nIntr,           \* messages flagged interrupted received so far
  ep,              \* interruptions handled so far
  \* ---- transcript (part_000 lines 18-19, 61-141)
  isAnalyzing,     \* boolean
  isUserSpeaking,  \* boolean
  effect,          \* the effect on [logs] (lines 112-141): 0 when not due, else the
                   \* number of the run now due, counted from the last change of
                   \* the log that the effect had not seen
  seen,            \* <<>>, or <<the log of the committed render whose effect is
                   \* still to run>>
  frags,           \* the fragments delivered to handleLog so far, in order
  \* ---- capture (geminiLiveService.ts lines 117-181)
  caps,            \* the blocks and frames captured so far, in order
  sent             \* the session.sendRealtimeInput calls so far, in order

appVars == <<status, logs, lieProbability, lastAnalysis, inputVolume, streamRef, srcObject>>
svcVars == <<ai, sessionPromise, inCtx, outCtx, processor, videoInterval>>
envVars == <<live, procOn, procCtx, timers, chan, prom>>
cntVars == <<nStarts, nStops, nErrors, nIgnored>>
ctlVars == <<mq, blocked, pending, cntVars>>
playVars == <<nextStartTime, sources, stopped, decoding, sched, nChunks, nIntr, ep>>
logVars == <<isAnalyzing, isUserSpeaking, effect, seen, frags>>
capVars == <<caps, sent>>
vars == <<appVars, svcVars, envVars, ctlVars, clock, playVars, capVars, logVars, capVars>>

\* ---------------------------------------------------------------- log entries
\* A text is a sequence of tokens; a token has a kind k and a number n:
\*   "w" a word (n tells words apart), "s" white space, "d" a run of digits with
\*   value n, "[" "]" "%" the characters, "L" the label, ":" either colon glyph.
\* The fixed texts of the program are one token each.  Ids are tokens too.
Tok(k, n) == [k |-> k, n |-> n]

STANDBY == <<Tok("STANDBY", 0)>>
\* line 128: the placeholder for an empty analysis
ANALYZING == <<Tok("ANALYZING", 0)>>

SysStart ==
  [id |-> Tok("sys-start", 0), type |-> "system", message |-> <<Tok("INIT_OK", 0)>>]
SysErr ==
  [id |-> Tok("sys-err", 0), type |-> "deception", message |-> <<Tok("INIT_FAILED", 0)>>]
SysDisc ==
  [id |-> Tok("sys-disc", 0), type |-> "deception", message |-> <<Tok("CONNECTION_LOST", 0)>>]

\* ---------------------------------------------------------------- frames
\* kind: whose cleanupSession / body the frame runs
\*   "start" startSession, "catch" startSession's catch block,
\*   "stop" endSession, "disc" the cleanupSession handleDisconnect fired
\* pc: "await"  disconnect() at `await this.sessionPromise` (promise p)
\*     "tracks" cleanupSession at `await geminiLive.disconnect()`
\*     "ret"    the caller at `await cleanupSession()`
\*     "media"  startSession at `await getUserMedia`
\*     "handshake" connect() at `await this.sessionPromise` (promise p = id)
\*     "connected", "connfail"  startSession at `await geminiLive.connect()`,
\*                  connect() having returned / thrown
\* err: the catch at disconnect() line 242 was taken
Frame(kind, id, pc, p, err) == [kind |-> kind, id |-> id, pc |-> pc, p |-> p, err |-> err]

Settled(k) == prom[k] \in {"resolved", "rejected"}

\* the microtask queue is empty: the event loop takes the next task
TaskTurn == mq = <<>>

\* the frame whose microtask runs next
Cur == Head(mq)

\* the next microtask belongs to frame id k (0: endSession, handleDisconnect)
Running(k) == mq # <<>> /\ Cur.id = k

\* startSession k at `await getUserMedia`
Media(k) == Frame("start", k, "media", 0, FALSE)

\* no startSession, endSession or cleanupSession is in flight
Quiet == mq = <<>> /\ blocked = <<>> /\ pending = {}

Init ==
  /\ status = "IDLE"
  /\ logs = <<>>
  /\ lieProbability = 0
  /\ lastAnalysis = STANDBY
  /\ inputVolume = 0
  /\ streamRef = 0
  /\ srcObject = 0
  /\ ai = FALSE
  /\ sessionPromise = 0
  /\ inCtx = 0
  /\ outCtx = 0
  /\ processor = 0
  /\ videoInterval = 0
  /\ live = {}
  /\ procOn = {}
  /\ procCtx = [k \in Ids |-> 0]
  /\ timers = {}
  /\ chan = [k \in Ids |-> "none"]
  /\ prom = [k \in Ids |-> "none"]
  /\ mq = <<>>
  /\ blocked = <<>>
  /\ pending = {}
  /\ nStarts = 0
  /\ nStops = 0
  /\ nErrors = 0
  /\ nIgnored = 0
  /\ clock = 0
  /\ nextStartTime = 0
  /\ sources = {}
  /\ stopped = {}
  /\ decoding = {}
  /\ sched = <<>>
  /\ nChunks = 0
  /\ nIntr = 0
  /\ ep = 0
  /\ isAnalyzing = FALSE
  /\ isUserSpeaking = FALSE
  /\ effect = 0
  /\ seen = <<>>
  /\ frags = <<>>
  /\ caps = <<>>
  /\ sent = <<>>

\* ---------------------------------------------------------------- disconnect
\* Release without line 259: the session promise is kept.  C11 must tell this
\* from the code.
ReleaseKeepsPromise ==
  /\ procOn' = {j \in procOn : j # processor /\ procCtx[j] # inCtx}
  /\ timers' = timers \ {videoInterval}
  /\ videoInterval' = 0
  /\ inCtx' = 0
  /\ outCtx' = 0
  /\ ai' = FALSE
  /\ UNCHANGED <<processor, procCtx, sessionPromise>>

\* disconnect() lines 247-262: release the audio/video resources, reset the fields.
\* Closing the input context (line 249) also ends the processors created on it.
Release ==
  /\ procOn' = {j \in procOn : j # processor /\ procCtx[j] # inCtx}
  /\ timers' = timers \ {videoInterval}
  /\ videoInterval' = 0
  /\ sessionPromise' = 0
  /\ inCtx' = 0
  /\ outCtx' = 0
  /\ ai' = FALSE
  /\ UNCHANGED <<processor, procCtx>>

\* session.close(): an open channel starts closing, its close event is still to come
Closed(k) == [chan EXCEPT ![k] = IF @ = "open" THEN "closing" ELSE @]

\* cleanupSession() called from a frame of the given kind, up to its first
\* suspension (lines 143-145): disconnect() runs to `await this.sessionPromise`
\* when there is a promise (lines 236-240), and to its end when there is none.
\* rest: the microtask queue without the caller.
CleanupCall(rest, kind, id) ==
  IF sessionPromise # 0
    THEN /\ IF Settled(sessionPromise)
              THEN /\ mq' = Append(rest, Frame(kind, id, "await", sessionPromise, FALSE))
                   /\ UNCHANGED blocked
              ELSE /\ mq' = rest
                   /\ blocked' = Append(blocked, Frame(kind, id, "await", sessionPromise, FALSE))
         /\ UNCHANGED <<svcVars, procOn, procCtx, timers>>
    ELSE /\ mq' = Append(rest, Frame(kind, id, "tracks", 0, FALSE))
         /\ UNCHANGED blocked
         /\ Release

\* disconnect() resumes after `await this.sessionPromise` (lines 240-262): closes
\* the session, or catches the rejection; then releases and resets
DisconnectResume(k) ==
  /\ Running(k)
  /\ Cur.pc = "await"
  /\ chan' = IF prom[Cur.p] = "resolved" THEN Closed(Cur.p) ELSE chan
  /\ Release
  /\ mq' = Append(Tail(mq), Frame(Cur.kind, Cur.id, "tracks", 0, prom[Cur.p] = "rejected"))
  /\ UNCHANGED <<appVars, live, prom, blocked, pending, cntVars>>
  /\ UNCHANGED <<clock, playVars, logVars, capVars>>

\* ---------------------------------------------------------------- cleanupSession
\* cleanupSession() lines 150-158, after `await geminiLive.disconnect()`: stop the
\* tracks of streamRef.current, detach the video, reset score and volume.  The
\* frame handleDisconnect fired ends here; the others return to their caller.
CleanupTracks(k) ==
  /\ Running(k)
  /\ Cur.pc = "tracks"
  /\ live' = live \ {streamRef}
  /\ srcObject' = 0
  /\ lieProbability' = 0
  /\ inputVolume' = 0
  /\ mq' = IF Cur.kind = "disc"
             THEN Tail(mq)
             ELSE Append(Tail(mq), Frame(Cur.kind, Cur.id, "ret", 0, Cur.err))
  /\ UNCHANGED <<status, logs, lastAnalysis, streamRef, svcVars, procOn, procCtx, timers, chan, prom,
                 blocked, pending, cntVars>>
  /\ UNCHANGED <<clock, playVars, logVars, capVars>>

\* ---------------------------------------------------------------- endSession
\* the stop button (rendered while status is ACTIVE, part_000 line 372) calls
\* endSession(): line 205 up to the first suspension
EndSessionCall ==
  /\ TaskTurn
  /\ status = "ACTIVE"
  /\ nStops < MaxStops
  /\ nStops' = nStops + 1
  /\ CleanupCall(mq, "stop", 0)
  /\ UNCHANGED <<appVars, live, chan, prom, pending, nStarts, nErrors, nIgnored>>
  /\ UNCHANGED <<clock, playVars, logVars, capVars>>

\* EndSessionDone with the failure disconnect() caught propagated to endSession():
\* lines 206-207 are skipped.  C6 must tell this from the code.
EndSessionDonePropagates(k) ==
  /\ Running(k)
  /\ Cur.kind = "stop"
  /\ Cur.pc = "ret"
  /\ status' = IF Cur.err THEN status ELSE "IDLE"
  /\ lastAnalysis' = IF Cur.err THEN lastAnalysis ELSE STANDBY
  /\ mq' = Tail(mq)
  /\ UNCHANGED <<logs, lieProbability, inputVolume, streamRef, srcObject, svcVars, envVars,
                 blocked, pending, cntVars>>
  /\ UNCHANGED <<clock, playVars, logVars, capVars>>

\* endSession() lines 206-207, after `await cleanupSession()`
EndSessionDone(k) ==
  /\ Running(k)
  /\ Cur.kind = "stop"
  /\ Cur.pc = "ret"
  /\ status' = "IDLE"
  /\ lastAnalysis' = STANDBY
  /\ mq' = Tail(mq)
  /\ UNCHANGED <<logs, lieProbability, inputVolume, streamRef, srcObject, svcVars, envVars,
                 blocked, pending, cntVars>>
  /\ UNCHANGED <<clock, playVars, logVars, capVars>>

\* ---------------------------------------------------------------- handleDisconnect
\* HandleDisconnect without the 'connection lost' entry.  C9 must tell this from
\* the code.
HandleDisconnectSilent ==
  /\ status' = "ERROR"
  /\ CleanupCall(mq, "disc", 0)
  /\ UNCHANGED <<logs, lieProbability, lastAnalysis, inputVolume, streamRef, srcObject>>

\* handleDisconnect() lines 105-109, called by onerror / onclose (service lines 65-72):
\* status ERROR, the 'connection lost' entry, cleanupSession() not awaited
HandleDisconnect ==
  /\ status' = "ERROR"
  /\ logs' = Append(logs, SysDisc)
  /\ CleanupCall(mq, "disc", 0)
  /\ UNCHANGED <<lieProbability, lastAnalysis, inputVolume, streamRef, srcObject>>

\* StartSessionIgnored with the tracks of the stream stopped and the video
\* detached (lines 150-155) before the return.  C21 must tell this from the code.
StartSessionIgnoredStops ==
  /\ TaskTurn
  /\ status = "CONNECTING"
  /\ nIgnored < MaxIgnored
  /\ nIgnored' = nIgnored + 1
  /\ live' = live \ {streamRef}
  /\ srcObject' = 0
  /\ UNCHANGED <<status, logs, lieProbability, lastAnalysis, inputVolume, streamRef, svcVars,
                 procOn, procCtx, timers, chan, prom, mq, blocked, pending, nStarts, nStops,
                 nErrors>>
  /\ UNCHANGED <<clock, playVars, logVars, capVars>>

\* ---------------------------------------------------------------- startSession
\* the start button (rendered while status is not ACTIVE, line 377) calls
\* startSession() while status is CONNECTING: line 162 returns
StartSessionIgnored ==
  /\ TaskTurn
  /\ status = "CONNECTING"
  /\ nIgnored < MaxIgnored
  /\ nIgnored' = nIgnored + 1
  /\ UNCHANGED <<appVars, svcVars, envVars, mq, blocked, pending, nStarts, nStops, nErrors>>
  /\ UNCHANGED <<clock, playVars, logVars, capVars>>

\* startSession() lines 162-165 up to the first suspension
StartSessionCall ==
  /\ TaskTurn
  /\ status \in {"IDLE", "ERROR"}
  /\ nStarts < MaxStarts
  /\ nStarts' = nStarts + 1
  /\ CleanupCall(mq, "start", nStarts + 1)
  /\ UNCHANGED <<appVars, live, chan, prom, pending, nStops, nErrors, nIgnored>>
  /\ UNCHANGED <<clock, playVars, logVars, capVars>>

\* startSession() lines 168-176, after `await cleanupSession()`: CONNECTING, the
\* log emptied, getUserMedia requested
StartSessionProceed(k) ==
  /\ Running(k)
  /\ Cur.kind = "start"
  /\ Cur.pc = "ret"
  /\ status' = "CONNECTING"
  /\ logs' = <<>>
  /\ lieProbability' = 0
  /\ lastAnalysis' = STANDBY
  /\ mq' = Tail(mq)
  /\ pending' = pending \cup {Media(k)}
  /\ UNCHANGED <<inputVolume, streamRef, srcObject, svcVars, envVars, blocked, cntVars>>
  /\ UNCHANGED <<clock, playVars, logVars, capVars>>

\* getUserMedia resolves: startSession() lines 177-189 and connect() lines 42-109
\* up to `await this.sessionPromise`.  The contexts are created after the click on
\* the start button and are running (line 47), so lines 48-49 do not suspend;
\* this.ai was set at line 42, so line 104 holds.  ai.live.connect(config) opens
\* channel k and returns promise k.  The new output context's clock starts at 0.
GetUserMediaResolved(k) ==
  /\ TaskTurn
  /\ Media(k) \in pending
  /\ streamRef' = k
  /\ srcObject' = k
  /\ live' = live \cup {k}
  /\ ai' = TRUE
  /\ inCtx' = k
  /\ outCtx' = k
  /\ clock' = 0
  /\ sessionPromise' = k
  /\ chan' = [chan EXCEPT ![k] = "connecting"]
  /\ prom' = [prom EXCEPT ![k] = "pending"]
  /\ pending' = pending \ {Media(k)}
  /\ blocked' = Append(blocked, Frame("start", k, "handshake", k, FALSE))
  /\ UNCHANGED <<status, logs, lieProbability, lastAnalysis, inputVolume, processor,
                 videoInterval, procOn, procCtx, timers, mq, cntVars, playVars, logVars, capVars>>

\* getUserMedia rejects (permission denied, no device): startSession()'s catch
\* block, lines 195-198, up to the first suspension
GetUserMediaRejected(k) ==
  /\ TaskTurn
  /\ Media(k) \in pending
  /\ pending' = pending \ {Media(k)}
  /\ CleanupCall(mq, "catch", k)
  /\ UNCHANGED <<appVars, live, chan, prom, cntVars>>
  /\ UNCHANGED <<clock, playVars, logVars, capVars>>

\* connect() resumes after `await this.sessionPromise` (lines 109-113): returns,
\* or logs and rethrows
ConnectResume(k) ==
  /\ Running(k)
  /\ Cur.pc = "handshake"
  /\ mq' = Append(Tail(mq), Frame("start", Cur.id,
                  IF prom[Cur.p] = "resolved" THEN "connected" ELSE "connfail", 0, FALSE))
  /\ UNCHANGED <<appVars, svcVars, envVars, blocked, pending, cntVars>>
  /\ UNCHANGED <<clock, playVars, logVars, capVars>>

\* connect() returned: startSession() lines 192-193
StartSessionActive(k) ==
  /\ Running(k)
  /\ Cur.pc = "connected"
  /\ status' = "ACTIVE"
  /\ logs' = Append(logs, SysStart)
  /\ mq' = Tail(mq)
  /\ UNCHANGED <<lieProbability, lastAnalysis, inputVolume, streamRef, srcObject, svcVars,
                 envVars, blocked, pending, cntVars>>
  /\ UNCHANGED <<clock, playVars, logVars, capVars>>

\* StartSessionCatch without line 197: the catch block does not clean up.  C8
\* must tell this from the code.
StartSessionCatchNoCleanup(k) ==
  /\ Running(k)
  /\ Cur.pc = "connfail"
  /\ mq' = Append(Tail(mq), Frame("catch", Cur.id, "ret", 0, FALSE))
  /\ UNCHANGED <<appVars, svcVars, envVars, blocked, pending, cntVars>>
  /\ UNCHANGED <<clock, playVars, logVars, capVars>>

\* connect() threw: startSession()'s catch block, lines 195-198, up to the first
\* suspension
StartSessionCatch(k) ==
  /\ Running(k)
  /\ Cur.pc = "connfail"
  /\ CleanupCall(Tail(mq), "catch", Cur.id)
  /\ UNCHANGED <<appVars, live, chan, prom, pending, cntVars>>
  /\ UNCHANGED <<clock, playVars, logVars, capVars>>

\* startSession() lines 199-200, after the catch block's `await cleanupSession()`
StartSessionFailed(k) ==
  /\ Running(k)
  /\ Cur.kind = "catch"
  /\ Cur.pc = "ret"
  /\ status' = "ERROR"
  /\ logs' = Append(logs, SysErr)
  /\ mq' = Tail(mq)
  /\ UNCHANGED <<lieProbability, lastAnalysis, inputVolume, streamRef, srcObject, svcVars,
                 envVars, blocked, pending, cntVars>>
  /\ UNCHANGED <<clock, playVars, logVars, capVars>>

\* ---------------------------------------------------------------- the remote channel
\* The channel of connect call k: "none", "connecting", "open", "closing" (closed
\* by session.close(), its close event not yet delivered), "closed", "dead" (gone
\* without ever opening).

\* onopen (service lines 57-61): startAudioStream (lines 117-154) creates and
\* connects a processor if there is an input context; startVideoStream (lines
\* 156-181) sets the sampling timer
ChannelOpen(k) ==
  /\ TaskTurn
  /\ chan[k] = "connecting"
  /\ chan' = [chan EXCEPT ![k] = "open"]
  /\ IF inCtx # 0
       THEN /\ processor' = k
            /\ procOn' = procOn \cup {k}
            /\ procCtx' = [procCtx EXCEPT ![k] = inCtx]
       ELSE UNCHANGED <<processor, procOn, procCtx>>
  /\ videoInterval' = k
  /\ timers' = timers \cup {k}
  /\ UNCHANGED <<appVars, ai, sessionPromise, inCtx, outCtx, live, prom, ctlVars>>
  /\ UNCHANGED <<clock, playVars, logVars, capVars>>

\* the promise of connect call k settles: the frames awaiting it are queued in
\* the order they began to await
Wake(k) ==
  /\ mq' = SelectSeq(blocked, LAMBDA f : f.p = k)
  /\ blocked' = SelectSeq(blocked, LAMBDA f : f.p # k)

\* the handshake completes: the promise of connect call k resolves with the session
HandshakeResolve(k) ==
  /\ TaskTurn
  /\ prom[k] = "pending"
  /\ chan[k] \in {"open", "closing", "closed"}
  /\ prom' = [prom EXCEPT ![k] = "resolved"]
  /\ Wake(k)
  /\ UNCHANGED <<appVars, svcVars, live, procOn, procCtx, timers, chan, pending, cntVars>>
  /\ UNCHANGED <<clock, playVars, logVars, capVars>>

\* the handshake fails: the promise of connect call k rejects
HandshakeReject(k) ==
  /\ TaskTurn
  /\ prom[k] = "pending"
  /\ chan[k] \in {"connecting", "dead"}
  /\ prom' = [prom EXCEPT ![k] = "rejected"]
  /\ chan' = [chan EXCEPT ![k] = "dead"]
  /\ Wake(k)
  /\ UNCHANGED <<appVars, svcVars, live, procOn, procCtx, timers, pending, cntVars>>
  /\ UNCHANGED <<clock, playVars, logVars, capVars>>

\* onerror (service lines 65-68)
ChannelError(k) ==
  /\ TaskTurn
  /\ chan[k] \in {"connecting", "open"}
  /\ nErrors < MaxErrors
  /\ nErrors' = nErrors + 1
  /\ HandleDisconnect
  /\ UNCHANGED <<live, chan, prom, pending, nStarts, nStops, nIgnored>>
  /\ UNCHANGED <<clock, playVars, logVars, capVars>>

\* onclose (service lines 69-72), the remote end having closed the channel
ChannelClose(k) ==
  /\ TaskTurn
  /\ chan[k] \in {"connecting", "open"}
  /\ nErrors < MaxErrors
  /\ nErrors' = nErrors + 1
  /\ chan' = [chan EXCEPT ![k] = IF @ = "connecting" THEN "dead" ELSE "closed"]
  /\ HandleDisconnect
  /\ UNCHANGED <<live, prom, pending, nStarts, nStops, nIgnored>>
  /\ UNCHANGED <<clock, playVars, logVars, capVars>>

\* onclose (service lines 69-72), the close that session.close() asked for
\* having completed
ChannelClosed(k) ==
  /\ TaskTurn
  /\ chan[k] = "closing"
  /\ chan' = [chan EXCEPT ![k] = "closed"]
  /\ HandleDisconnect
  /\ UNCHANGED <<live, prom, pending, cntVars>>
  /\ UNCHANGED <<clock, playVars, logVars, capVars>>

\* ---------------------------------------------------------------- handleServerMessage
\* Lines 183-232, for the messages that carry an audio chunk, the interrupted
\* flag, or both.  The handler is an async function the channel callback does
\* not await (line 63), so several of its frames can be suspended at line 204
\* at once.

Max(a, b) == IF a >= b THEN a ELSE b

\* A frame suspended at `await decodeAudioData(...)`, lines 204-209: the chunk's
\* arrival rank, its duration, the message's interrupted flag, and the number
\* of interruptions handled and the clock when the chunk arrived.
Chunk(id, dur, intr) ==
  [id |-> id, dur |-> dur, intr |-> intr, rcvEp |-> ep, rcvClock |-> clock]

\* decodeAudioData (utils/audioUtils) settles its promise after a latency that
\* depends on the chunk, so any suspended frame may be the next one to resume.
DecodeReady(c) == c \in decoding

\* A message is delivered by a channel that is open (lines 62-64).
Delivering == TaskTurn /\ \E k \in Ids : chan[k] = "open"

\* Lines 227-231: stop every live source, empty the live set, reset the cursor.
Interrupted(live0) ==
  /\ stopped' = stopped \cup live0
  /\ sources' = {}
  /\ nextStartTime' = 0
  /\ ep' = ep + 1

\* Lines 196-209: a message with an audio chunk while the output context
\* exists.  The cursor is raised to the clock (line 202) and the frame is
\* suspended on the decode (line 204).
AudioMessage(d, i) ==
  /\ Delivering
  /\ outCtx # 0
  /\ nChunks < MaxChunks
  /\ i => nIntr < MaxIntr
  /\ nChunks' = nChunks + 1
  /\ nIntr' = IF i THEN nIntr + 1 ELSE nIntr
  /\ nextStartTime' = Max(nextStartTime, clock)
  /\ decoding' = decoding \cup {Chunk(nChunks + 1, d, i)}
  /\ UNCHANGED <<logVars, capVars, appVars, svcVars, envVars, ctlVars, clock, sources, stopped, sched, ep>>

\* Lines 196-231 for a message with the interrupted flag and no audio chunk:
\* the condition at line 199 is false, lines 227-231 run in the same task.
InterruptMessage ==
  /\ Delivering
  /\ nIntr < MaxIntr
  /\ nIntr' = nIntr + 1
  /\ Interrupted(sources)
  /\ UNCHANGED <<logVars, capVars, appVars, svcVars, envVars, ctlVars, clock, decoding, sched, nChunks>>

\* DecodeDone without line 222: the cursor is not moved past the chunk.  C1 must
\* tell this from the code.
DecodeDoneNoAdvance(c) ==
  /\ TaskTurn
  /\ DecodeReady(c)
  /\ decoding' = decoding \ {c}
  /\ IF outCtx = 0
     THEN UNCHANGED <<nextStartTime, sources, stopped, sched, ep>>
     ELSE /\ sched' = Append(sched, [id |-> c.id, start |-> nextStartTime, dur |-> c.dur,
                                     at |-> clock, ep |-> ep,
                                     rcvEp |-> c.rcvEp, rcvClock |-> c.rcvClock])
          /\ IF c.intr
             THEN Interrupted(sources \cup {c.id})
             ELSE /\ sources' = sources \cup {c.id}
                  /\ UNCHANGED <<nextStartTime, stopped, ep>>
  /\ UNCHANGED <<logVars, capVars, appVars, svcVars, envVars, ctlVars, clock, nChunks, nIntr>>

\* Lines 211-231: the decode of chunk c settled.  Line 211 dereferences
\* this.outputAudioContext: when disconnect() has nulled it the frame ends with
\* a TypeError.  Otherwise the source is started at the cursor (line 221), the
\* cursor moves by the duration (line 222), the source joins the live set
\* (line 223), and the message's interrupted flag is handled (lines 227-231).
DecodeDone(c) ==
  /\ TaskTurn
  /\ DecodeReady(c)
  /\ decoding' = decoding \ {c}
  /\ IF outCtx = 0
     THEN UNCHANGED <<nextStartTime, sources, stopped, sched, ep>>
     ELSE /\ sched' = Append(sched, [id |-> c.id, start |-> nextStartTime, dur |-> c.dur,
                                     at |-> clock, ep |-> ep,
                                     rcvEp |-> c.rcvEp, rcvClock |-> c.rcvClock])
          /\ IF c.intr
             THEN Interrupted(sources \cup {c.id})
             ELSE /\ nextStartTime' = nextStartTime + c.dur
                  /\ sources' = sources \cup {c.id}
                  /\ UNCHANGED <<stopped, ep>>
  /\ UNCHANGED <<logVars, capVars, appVars, svcVars, envVars, ctlVars, clock, nChunks, nIntr>>

\* The output context renders audio: its clock advances.
Tick ==
  /\ outCtx # 0
  /\ clock < MaxClock
  /\ clock' = clock + 1
  /\ UNCHANGED <<logVars, capVars, appVars, svcVars, envVars, ctlVars, playVars>>

\* When source c was started and when it ends: start(when) with when in the
\* past begins at once.
Entry(id) == CHOOSE e \in {sched[n] : n \in DOMAIN sched} : e.id = id
EndsAt(id) == Max(Entry(id).start, Entry(id).at) + Entry(id).dur

\* Lines 217-219: the 'ended' listener of a source that played to its end.
SourceEnded(id) ==
  /\ TaskTurn
  /\ id \in sources
  /\ EndsAt(id) <= clock
  /\ sources' = sources \ {id}
  /\ UNCHANGED <<logVars, capVars, appVars, svcVars, envVars, ctlVars, clock, nextStartTime, stopped,
                 decoding, sched, nChunks, nIntr, ep>>

\* ---------------------------------------------------------------- handleLog
\* text.includes('[') (line 77)
HasBracket(text) == \E i \in DOMAIN text : text[i].k = "["

\* lines 73-74: the last entry is a model entry (any type but 'neutral')
LastIsModel == logs[Len(logs)].type # "neutral"

\* Merges without the speaker test of line 77.  C13 must tell this from the
\* code.
MergesAnySpeaker(text, isModel) ==
  /\ logs # <<>>
  /\ ~HasBracket(text)

\* line 77: the fragment is merged into the last entry
Merges(text, isModel) ==
  /\ logs # <<>>
  /\ LastIsModel = isModel
  /\ ~HasBracket(text)

\* lines 87-93: the entry a fragment creates; the id is a fresh random string
NewEntry(text, isModel) ==
  [id |-> Tok("rnd", Len(frags) + 1),
   type |-> IF isModel THEN "system" ELSE "neutral",
   message |-> text]

\* handleLog(text, isModel), lines 61-103, for the n-th fragment delivered.  An
\* empty text returns at line 62.
\* The flags of lines 64-71 are set, then the log is updated: merge (lines
\* 77-83) or new entry (lines 84-95).  Setting the log schedules the effect on
\* [logs].
HandleLog(n, text, isModel) ==
  /\ n = Len(frags) + 1
  /\ frags' = Append(frags, [text |-> text, isModel |-> isModel])
  /\ IF text = <<>>
     THEN UNCHANGED <<logs, isAnalyzing, isUserSpeaking, effect>>
     ELSE /\ isAnalyzing' = IF isModel THEN TRUE ELSE isAnalyzing
          /\ isUserSpeaking' = ~isModel
          /\ logs' = IF Merges(text, isModel)
                       THEN [logs EXCEPT ![Len(logs)].message = @ \o text]
                       ELSE Append(logs, NewEntry(text, isModel))
          /\ effect' = 1
  /\ UNCHANGED <<status, lieProbability, lastAnalysis, inputVolume, streamRef, srcObject,
                 svcVars, envVars, ctlVars, clock, playVars, capVars, seen>>

\* line 66: the timeout that ends the analyzing flag
AnalyzingTimeout ==
  /\ isAnalyzing
  /\ isAnalyzing' = FALSE
  /\ UNCHANGED <<appVars, svcVars, envVars, ctlVars, clock, playVars, capVars, isUserSpeaking,
                 effect, seen, frags>>

\* line 70: the timeout that ends the speaking flag
SpeakingTimeout ==
  /\ isUserSpeaking
  /\ isUserSpeaking' = FALSE
  /\ UNCHANGED <<appVars, svcVars, envVars, ctlVars, clock, playVars, capVars, isAnalyzing,
                 effect, seen, frags>>

\* ---------------------------------------------------------------- the extractor
\* The regular expression of lines 118 and 127,
\*   \[ \s* label \s* colon \s* (\d+) \s* % \s* \]
\* on token sequences.  Skip(t, i): the first position from i on that is not
\* white space (Len(t) + 1 when there is none).
RECURSIVE Skip(_, _)
Skip(t, i) == IF i <= Len(t) /\ t[i].k = "s" THEN Skip(t, i + 1) ELSE i

Is(t, i, k) == i <= Len(t) /\ t[i].k = k

\* the positions of the six parts of a tag that starts at i
TagParts(t, i) ==
  LET b == Skip(t, i + 1)
      c == Skip(t, b + 1)
      d == Skip(t, c + 1)
      e == Skip(t, d + 1)
      f == Skip(t, e + 1)
  IN <<i, b, c, d, e, f>>

MatchAt(t, i) ==
  LET p == TagParts(t, i)
  IN /\ Is(t, p[1], "[")
     /\ Is(t, p[2], "L")
     /\ Is(t, p[3], ":")
     /\ Is(t, p[4], "d")
     /\ Is(t, p[5], "%")
     /\ Is(t, p[6], "]")

HasTag(t) == \E i \in DOMAIN t : MatchAt(t, i)

\* String.match / String.replace without the g flag: the leftmost match
FirstTag(t) == CHOOSE i \in DOMAIN t : MatchAt(t, i) /\ \A j \in 1..(i - 1) : ~MatchAt(t, j)

\* parseInt(match[1], 10), line 121
TagScore(t) == t[TagParts(t, FirstTag(t))[4]].n

\* String.trim
RECURSIVE TrimLeft(_)
TrimLeft(t) == IF t # <<>> /\ Head(t).k = "s" THEN TrimLeft(Tail(t)) ELSE t

RECURSIVE TrimRight(_)
TrimRight(t) ==
  IF t # <<>> /\ t[Len(t)].k = "s" THEN TrimRight(SubSeq(t, 1, Len(t) - 1)) ELSE t

\* line 127: the message without its first tag, trimmed
CleanMsg(t) ==
  LET i == FirstTag(t)
      f == TagParts(t, i)[6]
  IN TrimRight(TrimLeft(SubSeq(t, 1, i - 1) \o SubSeq(t, f + 1, Len(t))))

\* NewType with the upper threshold off by one (>= 75).  C14 must tell this
\* from the code.
NewTypeFrom75(prob) ==
  IF prob >= 75 THEN "deception"
  ELSE IF prob < 50 THEN "truth"
  ELSE "system"

\* lines 123-126
NewType(prob) ==
  IF prob > 75 THEN "deception"
  ELSE IF prob < 50 THEN "truth"
  ELSE "system"

\* lines 27-28: the dashboard's derived flags
IsDanger(p) == p > 75
IsSuspicious(p) == p >= 50 /\ p <= 75

\* React commits a render in which logs changed (the dependency of line 141):
\* the effect of that render is created over the log it rendered and runs
\* later, in a task of its own.  A render waits for the effect of the render
\* before it.
Render ==
  /\ effect > 0
  /\ seen = <<>>
  /\ seen' = <<logs>>
  /\ UNCHANGED <<appVars, svcVars, envVars, ctlVars, clock, playVars, capVars, isAnalyzing,
                 isUserSpeaking, effect, frags>>

\* Extractor without the test of line 130: the entry is rewritten on every match.
\* C15 must tell this from the code.
ExtractorAlwaysUpdates ==
  /\ seen # <<>>
  /\ seen' = <<>>
  /\ LET snap == seen[1]
     IN
     IF snap # <<>> /\ snap[Len(snap)].type # "neutral" /\ HasTag(snap[Len(snap)].message)
     THEN LET lastLog == snap[Len(snap)]
              prob == TagScore(lastLog.message)
              cleanMsg == CleanMsg(lastLog.message)
          IN /\ lieProbability' = prob
             /\ lastAnalysis' = IF cleanMsg = <<>> THEN ANALYZING ELSE cleanMsg
             /\ logs' = [logs EXCEPT ![Len(logs)].type = NewType(prob)]
             /\ effect' = IF logs = snap THEN effect + 1 ELSE 1
     ELSE /\ effect' = IF logs = snap THEN 0 ELSE effect
          /\ UNCHANGED <<logs, lieProbability, lastAnalysis>>
  /\ UNCHANGED <<status, inputVolume, streamRef, srcObject, svcVars, envVars, ctlVars, clock,
                 playVars, capVars, isAnalyzing, isUserSpeaking, frags>>

\* The effect on [logs], lines 112-141, of a committed render.  It scans the log
\* of its render (lines 112-127: `logs` is the value the render closed over).
\* The update of line 131 is a function of the log at the time it is applied
\* (`prev`): it sets the type of the entry that is last then, and schedules a
\* render.  Fragments delivered between the render and the effect have their
\* updates applied before it.
Extractor ==
  /\ seen # <<>>
  /\ seen' = <<>>
  /\ LET snap == seen[1]
     IN
     IF snap # <<>> /\ snap[Len(snap)].type # "neutral" /\ HasTag(snap[Len(snap)].message)
     THEN LET lastLog == snap[Len(snap)]
              prob == TagScore(lastLog.message)
              cleanMsg == CleanMsg(lastLog.message)
          IN /\ lieProbability' = prob
             /\ lastAnalysis' = IF cleanMsg = <<>> THEN ANALYZING ELSE cleanMsg
             /\ IF lastLog.type # NewType(prob)
                THEN /\ logs' = [logs EXCEPT ![Len(logs)].type = NewType(prob)]
                     /\ effect' = IF logs = snap THEN effect + 1 ELSE 1
                ELSE /\ effect' = IF logs = snap THEN 0 ELSE effect
                     /\ UNCHANGED logs
     ELSE /\ effect' = IF logs = snap THEN 0 ELSE effect
          /\ UNCHANGED <<logs, lieProbability, lastAnalysis>>
  /\ UNCHANGED <<status, inputVolume, streamRef, srcObject, svcVars, envVars, ctlVars, clock,
                 playVars, capVars, isAnalyzing, isUserSpeaking, frags>>

\* ---------------------------------------------------------------- capture
\* Lines 117-181.  A block or frame is a record of caps: its kind, the pipeline
\* (processor or timer) that captured it, this.sessionPromise at capture and the
\* state of that promise at capture.
\* `this.sessionPromise?.then(callback)` (lines 140, 172) makes no call when the
\* field is null; it queues the callback as a microtask when the promise is
\* settled, and after the continuations already waiting when it is pending.
\* The callback is a frame of kind "audio" or "video" at pc "send" whose id is the
\* rank of the block or frame in caps.
Captured(kind, k) ==
  [kind |-> kind, by |-> k, p |-> sessionPromise,
   st |-> IF sessionPromise = 0 THEN "none" ELSE prom[sessionPromise]]

\* Capture with the data handed to the session of this.sessionPromise at once,
\* whatever the state of the promise.  C17 must tell this from the code.
CaptureSendsAtOnce(kind, k) ==
  LET n == Len(caps) + 1
  IN /\ TaskTurn
     /\ n <= MaxCaps
     /\ caps' = Append(caps, Captured(kind, k))
     /\ sent' = IF sessionPromise = 0
                  THEN sent
                  ELSE Append(sent, [n |-> n, ch |-> sessionPromise,
                                     ok |-> chan[sessionPromise] = "open"])
     /\ UNCHANGED <<mq, blocked>>

Capture(kind, k) ==
  LET n == Len(caps) + 1
      job == Frame(kind, n, "send", sessionPromise, FALSE)
  IN /\ TaskTurn
     /\ n <= MaxCaps
     /\ caps' = Append(caps, Captured(kind, k))
     /\ IF sessionPromise = 0
          THEN UNCHANGED <<mq, blocked>>
          ELSE IF Settled(sessionPromise)
                 THEN mq' = <<job>> /\ UNCHANGED blocked
                 ELSE blocked' = Append(blocked, job) /\ UNCHANGED mq
     /\ UNCHANGED sent

\* the levels the volume callback reports
Volumes == {0, 50}

\* processor.onaudioprocess, lines 123-150, of a connected processor: the volume
\* callback (App line 186: setInputVolume), then the send callback is registered.
\* A processor fires while it is connected and its context is not closed.
OnAudioProcess(k, v) ==
  /\ k \in procOn
  /\ inputVolume' = v
  /\ Capture("audio", k)
  /\ UNCHANGED <<status, logs, lieProbability, lastAnalysis, streamRef, srcObject, svcVars,
                 envVars, pending, cntVars, clock, playVars, logVars>>

\* the callback of the sampling timer, lines 164-179, for a timer that is not
\* cleared, when the video element has a stream (line 165 returns otherwise)
VideoTick(k) ==
  /\ k \in timers
  /\ srcObject # 0
  /\ Capture("video", k)
  /\ UNCHANGED <<appVars, svcVars, envVars, pending, cntVars, clock, playVars, logVars>>

\* SendRealtimeInput with a failed transmission surfaced to the session as an
\* error.  C19 must tell this from the code.
SendRealtimeInputRaises(n) ==
  LET fails == prom[Cur.p] # "resolved" \/ chan[Cur.p] # "open"
  IN /\ Running(n)
     /\ Cur.pc = "send"
     /\ mq' = Tail(mq)
     /\ sent' = IF prom[Cur.p] = "resolved"
                  THEN Append(sent, [n |-> n, ch |-> Cur.p, ok |-> chan[Cur.p] = "open"])
                  ELSE sent
     /\ status' = IF fails THEN "ERROR" ELSE status
     /\ logs' = IF fails THEN Append(logs, SysDisc) ELSE logs
     /\ UNCHANGED <<lieProbability, lastAnalysis, inputVolume, streamRef, srcObject, svcVars,
                    envVars, blocked, pending, cntVars, clock, playVars, logVars, caps>>

\* the send callback, lines 140-149 and 172-178.  A fulfilled promise passes the
\* session to the callback, which calls session.sendRealtimeInput; the channel
\* takes the data when it is open, and a call that throws is caught at lines
\* 143-146 and 176-178.  A rejected promise skips the callback and the rejection
\* is caught at lines 147-149 and 178.
SendRealtimeInput(n) ==
  /\ Running(n)
  /\ Cur.pc = "send"
  /\ mq' = Tail(mq)
  /\ sent' = IF prom[Cur.p] = "resolved"
               THEN Append(sent, [n |-> n, ch |-> Cur.p, ok |-> chan[Cur.p] = "open"])
               ELSE sent
  /\ UNCHANGED <<appVars, svcVars, envVars, blocked, pending, cntVars, clock, playVars,
                 logVars, caps>>

\* ---------------------------------------------------------------- specification
FrameIds == 0..MaxStarts

Next ==
  \/ StartSessionCall
  \/ StartSessionIgnored
  \/ EndSessionCall
  \/ \E k \in FrameIds :
       \/ DisconnectResume(k)
       \/ CleanupTracks(k)
       \/ EndSessionDone(k)
  \/ \E k \in Ids :
       \/ StartSessionProceed(k)
       \/ GetUserMediaResolved(k)
       \/ GetUserMediaRejected(k)
       \/ ConnectResume(k)
       \/ StartSessionActive(k)
       \/ StartSessionCatch(k)
       \/ StartSessionFailed(k)
       \/ ChannelOpen(k)
       \/ HandshakeResolve(k)
       \/ HandshakeReject(k)
       \/ ChannelError(k)
       \/ ChannelClose(k)
       \/ ChannelClosed(k)

Spec == Init /\ [][Next]_vars

\* The event loop runs every queued continuation, and the handshake of an opened
\* channel settles.
Fairness ==
  /\ \A k \in FrameIds :
       /\ WF_vars(DisconnectResume(k))
       /\ WF_vars(CleanupTracks(k))
       /\ WF_vars(EndSessionDone(k))
  /\ \A k \in Ids :
       /\ WF_vars(StartSessionProceed(k))
       /\ WF_vars(ConnectResume(k))
       /\ WF_vars(StartSessionActive(k))
       /\ WF_vars(StartSessionCatch(k))
       /\ WF_vars(StartSessionFailed(k))
       /\ WF_vars(HandshakeResolve(k))
       /\ WF_vars(HandshakeReject(k))

FairSpec == Spec /\ Fairness

\* The playback scheduler of one session: the state after the first start()
\* completed (channel 1 open, status ACTIVE), then the server's messages.
Connected ==
  /\ status = "ACTIVE"
  /\ logs = <<SysStart>>
  /\ lieProbability = 0
  /\ lastAnalysis = STANDBY
  /\ inputVolume = 0
  /\ streamRef = 1
  /\ srcObject = 1
  /\ ai = TRUE
  /\ sessionPromise = 1
  /\ inCtx = 1
  /\ outCtx = 1
  /\ processor = 1
  /\ videoInterval = 1
  /\ live = {1}
  /\ procOn = {1}
  /\ procCtx = [k \in Ids |-> IF k = 1 THEN 1 ELSE 0]
  /\ timers = {1}
  /\ chan = [k \in Ids |-> IF k = 1 THEN "open" ELSE "none"]
  /\ prom = [k \in Ids |-> IF k = 1 THEN "resolved" ELSE "none"]
  /\ Quiet
  /\ nStarts = 1
  /\ nStops = 0
  /\ nErrors = 0
  /\ nIgnored = 0
  /\ clock = 0
  /\ nextStartTime = 0
  /\ sources = {}
  /\ stopped = {}
  /\ decoding = {}
  /\ sched = <<>>
  /\ nChunks = 0
  /\ nIntr = 0
  /\ ep = 0
  /\ isAnalyzing = FALSE
  /\ isUserSpeaking = FALSE
  /\ effect = 0
  /\ seen = <<>>
  /\ frags = <<>>
  /\ caps = <<>>
  /\ sent = <<>>

ChunkIds == 1..MaxChunks

Frames == [id : ChunkIds, dur : Durations, intr : BOOLEAN,
           rcvEp : 0..MaxIntr, rcvClock : 0..MaxClock]

NextPlay ==
  \/ \E d \in Durations :
       \/ AudioMessage(d, FALSE)
       \/ AudioMessage(d, TRUE)
  \/ InterruptMessage
  \/ \E c \in Frames : DecodeDone(c)
  \/ Tick
  \/ \E id \in ChunkIds : SourceEnded(id)

SpecPlay == Connected /\ [][NextPlay]_vars

\* The score values of the tags that come with a word: the boundaries of the
\* tiers.  The bare tag and the split tag carry the ends of the range, 0 and 100.
Scores == {49, 50, 75, 76}

Word(n) == Tok("w", n)
Space == Tok("s", 0)
Tag(p) == <<Tok("[", 0), Tok("L", 0), Tok(":", 0), Tok("d", p), Tok("%", 0), Tok("]", 0)>>

\* The fragments the transcription delivers as the n-th one: nothing, a word, a
\* tag followed by a word, a bare tag, the two halves of a tag split between
\* fragments, and a bracket that opens no tag.  No fragment starts or ends
\* inside a run of digits.
Texts(n) ==
  {<<>>, <<Word(n)>>}
    \cup {Tag(p) \o <<Space, Word(n)>> : p \in Scores}
    \cup {<<Tok("[", 0), Space, Tok("L", 0), Tok(":", 0), Space, Tok("d", 0), Tok("%", 0),
             Space, Tok("]", 0), Space>>,
          <<Tok("[", 0), Tok("L", 0), Tok(":", 0)>>,
          <<Tok("d", 100), Tok("%", 0), Tok("]", 0), Word(n)>>,
          <<Word(n), Tok("[", 0), Word(n)>>}

FragIds == 1..MaxFrags

\* The transcript of one session: the state after the first start() completed,
\* then the fragments the channel delivers, the flag timeouts and the effect.
NextLog ==
  \/ \E n \in FragIds :
       \E text \in Texts(n) :
         \/ HandleLog(n, text, FALSE)
         \/ HandleLog(n, text, TRUE)
  \/ AnalyzingTimeout
  \/ SpeakingTimeout
  \/ Render
  \/ Extractor

SpecLog == Connected /\ [][NextLog]_vars

\* The session lifecycle with the server's audio: sessions that play audio and
\* are stopped, fail or are started again.
NextSession ==
  \/ Next
  \/ \E d \in Durations : AudioMessage(d, FALSE)
  \/ \E c \in Frames : DecodeDone(c)

SpecSession == Init /\ [][NextSession]_vars

CapIds == 1..MaxCaps

\* The session lifecycle with the capture pipelines running.
NextCap ==
  \/ Next
  \/ \E k \in Ids :
       \/ \E v \in Volumes : OnAudioProcess(k, v)
       \/ VideoTick(k)
  \/ \E n \in CapIds : SendRealtimeInput(n)

SpecCap == Init /\ [][NextCap]_vars

\* ================================================================ claims
\* the frames in flight, as a sequence
InFlight == mq \o blocked

\* the channel of connect call k is up: opening or open, and not closed by the client
Up(k) == chan[k] \in {"connecting", "open"}

\* ---------------------------------------------------------------- C1
Scheduled == DOMAIN sched

\* C1 as stated: any two chunks A and B with A scheduled before B satisfy
\* start(B) >= start(A) + duration(A), start being the time handed to
\* source.start.
C1_NoOverlap ==
  \A i, j \in Scheduled :
    i < j => sched[j].start >= sched[i].start + sched[i].dur

\* C1 as amended: any two chunks A and B with A scheduled before B and no
\* interruption handled between the two source.start calls satisfy
\* start(B) >= start(A) + duration(A).
C1_NoOverlapBetweenInterruptions ==
  \A i, j \in Scheduled :
    (i < j /\ sched[i].ep = sched[j].ep) =>
      sched[j].start >= sched[i].start + sched[i].dur

\* two chunks scheduled after an interruption, none handled between them, the
\* second one decoded while the clock advanced
C1_Witness ==
  \E i, j \in Scheduled :
    /\ i < j
    /\ sched[i].ep = sched[j].ep
    /\ sched[i].ep >= 1
    /\ sched[j].at > sched[j].rcvClock

\* ---------------------------------------------------------------- C2
\* C2: chunks are scheduled in the order they were received, whatever the order
\* their decodes finish in, and a chunk received later never gets an earlier
\* start time than a chunk received before it.
C2_ScheduledInArrivalOrder ==
  /\ \A i, j \in Scheduled : i < j => sched[i].id < sched[j].id
  /\ \A i, j \in Scheduled : sched[i].id < sched[j].id => sched[i].start <= sched[j].start

\* ---------------------------------------------------------------- C3
\* the chunk is the first one received after the interruption before it
FirstAfterInterruption(i) ==
  /\ sched[i].rcvEp >= 1
  /\ \A j \in Scheduled : sched[j].rcvEp = sched[i].rcvEp => sched[j].id >= sched[i].id

\* C3: handling an interruption stops every chunk of the live set, empties the
\* live set and sets nextStartTime to 0; and the first chunk received after an
\* interruption is started no earlier than the output clock read when it arrived.
C3_InterruptionResets ==
  /\ [][ep' # ep => /\ sources \subseteq stopped'
                    /\ sources' = {}
                    /\ nextStartTime' = 0]_vars
  /\ [](\A i \in Scheduled :
          FirstAfterInterruption(i) => sched[i].start >= sched[i].rcvClock)

\* ---------------------------------------------------------------- C4
\* C4: the start time handed to source.start is never before the output clock
\* read at the moment of the call.
C4_NeverInThePast ==
  \A i \in Scheduled : sched[i].start >= sched[i].at

\* ---------------------------------------------------------------- C5
\* C5: at most one session is live at any time: whenever the channel a later
\* start() opened is up, no channel an earlier start() opened is still up.
C5_OneLiveSession == \A j, k \in Ids : (j < k /\ Up(k)) => ~Up(j)

\* ---------------------------------------------------------------- C6
StopFrames(q) == Len(SelectSeq(q, LAMBDA f : f.kind = "stop"))

ClaimedTransitions ==
  { <<"IDLE", "CONNECTING">>, <<"CONNECTING", "ACTIVE">>, <<"ACTIVE", "IDLE">>,
    <<"CONNECTING", "ERROR">>, <<"ACTIVE", "ERROR">>, <<"ERROR", "IDLE">> }

\* C7: the state starts at IDLE and changes only along the six transitions of
\* the lifecycle diagram.
C7_OnlyClaimedTransitions ==
  /\ status = "IDLE"
  /\ [][status' # status => <<status, status'>> \in ClaimedTransitions]_vars

\* ---------------------------------------------------------------- C8
\* the failed startSession k completes: its catch block leaves the queue
FailedStartEnds(k) ==
  /\ mq # <<>>
  /\ Cur = Frame("catch", k, "ret", 0, Cur.err)
  /\ mq' = Tail(mq)

\* what disconnect() leaves behind
CleanedUpService ==
  /\ sessionPromise = 0
  /\ inCtx = 0
  /\ outCtx = 0
  /\ videoInterval = 0
  /\ processor \notin procOn

\* what cleanupSession() leaves behind: no session promise, no contexts, no timer
\* handle, the current processor disconnected, the current stream stopped and
\* detached, the score reset
CleanedUp ==
  /\ sessionPromise = 0
  /\ inCtx = 0
  /\ outCtx = 0
  /\ videoInterval = 0
  /\ processor \notin procOn
  /\ streamRef \notin live
  /\ srcObject = 0
  /\ lieProbability = 0

\* C8: a startSession() whose acquisition or handshake failed ends with the full
\* cleanup done, the state ERROR and the failure entry logged, and between the
\* failure and its end it opens no channel.
C8_FailedStartEndsInError ==
  [][\A k \in Ids :
       /\ FailedStartEnds(k) =>
            /\ status' = "ERROR"
            /\ logs' = Append(logs, SysErr)
            /\ CleanedUp'
       /\ (\E i \in 1..Len(InFlight) : InFlight[i].kind = "catch" /\ InFlight[i].id = k)
            => chan'[k] \in {"none", "dead"}]_vars

\* a start() whose handshake failed has ended
C8_Witness ==
  /\ status = "ERROR"
  /\ logs # <<>>
  /\ logs[Len(logs)] = SysErr
  /\ \E k \in Ids : prom[k] = "rejected"
  /\ Quiet

\* ---------------------------------------------------------------- C9
\* an error or close event is delivered in this step
ChannelEvent ==
  \/ nErrors' = nErrors + 1
  \/ \E k \in Ids : chan[k] = "closing" /\ chan'[k] = "closed"

DiscFrames(q) == Len(SelectSeq(q, LAMBDA f : f.kind = "disc"))

\* C9: an error or close event delivered while the state is CONNECTING or ACTIVE
\* sets the state to ERROR, appends the 'connection lost' entry and starts a
\* cleanupSession(); it opens no channel, and a channel is only ever opened by a
\* startSession() returning from getUserMedia, never reopened once it is down.
C9_DisconnectIsFatal ==
  [][/\ (ChannelEvent /\ status \in {"CONNECTING", "ACTIVE"}) =>
          /\ status' = "ERROR"
          /\ logs' = Append(logs, SysDisc)
          /\ DiscFrames(InFlight') = DiscFrames(InFlight) + 1
          /\ sessionPromise = 0 => CleanedUpService'
          /\ \A k \in Ids : Up(k)' => Up(k)
     /\ \A k \in Ids :
          /\ (~Up(k) /\ Up(k)') => (chan[k] = "none" /\ Media(k) \in pending)
          /\ (chan[k] # "none") => (chan'[k] # "none")]_vars

\* the connection was lost while the session was active
C9_Witness ==
  /\ status = "ERROR"
  /\ Len(logs) >= 2
  /\ logs[Len(logs)] = SysDisc
  /\ logs[Len(logs) - 1] = SysStart
  /\ nErrors = 1
  /\ nStops = 0

\* ---------------------------------------------------------------- C10
\* C10: whenever the state is IDLE or ERROR and no startSession, endSession or
\* cleanupSession is in flight, no resource is held: no session promise, no
\* channel up, no live track, no sampling timer, no connected processor.
C10_NothingHeldWhenIdle ==
  (status \in {"IDLE", "ERROR"} /\ Quiet) =>
    /\ sessionPromise = 0
    /\ \A k \in Ids : ~Up(k)
    /\ live = {}
    /\ timers = {}
    /\ procOn = {}

\* ---------------------------------------------------------------- C11
\* what a cleanupSession() works on: the service's fields, the capture handles,
\* the timer, the score and the volume
CleanupState ==
  <<ai, sessionPromise, inCtx, outCtx, processor, videoInterval, live, procOn, timers,
    streamRef, srcObject, lieProbability, inputVolume>>

\* the state a completed cleanupSession() leaves
Clean == CleanedUp /\ ai = FALSE /\ inputVolume = 0

CleanupFrames(q) == Len(SelectSeq(q, LAMBDA f : f.pc \in {"await", "tracks"}))

\* this step is a step of a cleanupSession(): its call, or one of its
\* continuations
CleanupRuns ==
  \/ mq # <<>> /\ Cur.pc \in {"await", "tracks"}
  \/ CleanupFrames(InFlight') > CleanupFrames(InFlight)

\* this step is the last one of a cleanupSession()
CleanupEnds == mq # <<>> /\ Cur.pc = "tracks"

\* C11: cleanupSession() is idempotent: every cleanup ends in the clean state,
\* and a cleanup that runs in the clean state (from Idle, or right after
\* another cleanup) leaves the channel handle, the capture handles, the timer,
\* the score and the volume as they are; every cleanup frame runs to its end
\* (no failure leaves it).
C11_CleanupIdempotent ==
  /\ [][CleanupEnds => Clean']_vars
  /\ [][(CleanupRuns /\ Clean) => UNCHANGED CleanupState]_vars
  /\ [][(mq # <<>> /\ Cur.pc = "await") =>
          (mq' # <<>> /\ mq'[Len(mq')].pc = "tracks")]_vars

\* the cleanup of a start() that follows a completed stop() has run: the second
\* cleanup in a row
C11_Witness ==
  /\ mq # <<>>
  /\ Cur.kind = "start"
  /\ Cur.pc = "ret"
  /\ nStops = 1
  /\ status = "IDLE"
  /\ blocked = <<>>
  /\ Clean

\* ---------------------------------------------------------------- C12
\* the text opens a structured tag: a bracket followed by the label
OpensTag(text) ==
  \E i \in DOMAIN text : Is(text, i, "[") /\ Is(text, Skip(text, i + 1), "L")

\* the text starts a new turn: it opens a structured tag (strict), or it
\* contains a bracket at all
Opens(text, strict) == IF strict THEN OpensTag(text) ELSE HasBracket(text)

\* the non-empty fragments delivered so far
Delivered == SelectSeq(frags, LAMBDA f : f.text # <<>>)

\* fragment i starts a run: the first one, a change of speaker, or a tag opening
StartsRun(F, i, strict) ==
  \/ i = 1
  \/ F[i].isModel # F[i - 1].isModel
  \/ Opens(F[i].text, strict)

\* the texts of the runs of the first i fragments: per run, the in-order
\* concatenation of its fragments
RECURSIVE RunTexts(_, _, _)
RunTexts(F, i, strict) ==
  IF i = 0 THEN <<>>
  ELSE LET r == RunTexts(F, i - 1, strict)
       IN IF StartsRun(F, i, strict)
            THEN Append(r, F[i].text)
            ELSE [r EXCEPT ![Len(r)] = @ \o F[i].text]

Messages(l) == [i \in DOMAIN l |-> l[i].message]

\* C12: the texts of the turns in the log are the session's start entry, then
\* per run of delivered fragments (contiguous, same speaker, not tag-opening)
\* the in-order concatenation of exactly the fragments of that run.
C12_TurnsAreRuns ==
  Messages(logs) = <<SysStart.message>> \o RunTexts(Delivered, Len(Delivered), TRUE)

\* ---------------------------------------------------------------- C13
\* this step delivers the non-empty fragment f
Delivery(f) == frags' = Append(frags, f) /\ f.text # <<>>

Appended(f) == logs' = [logs EXCEPT ![Len(logs)].message = @ \o f.text]

Created(f) ==
  /\ Len(logs') = Len(logs) + 1
  /\ SubSeq(logs', 1, Len(logs)) = logs
  /\ logs'[Len(logs')].message = f.text

\* the merge rule for the fragment delivered in this step
MergeRule(strict) ==
  \A f \in {frags'[Len(frags')]} :
    Delivery(f) =>
      IF /\ logs # <<>>
         /\ (logs[Len(logs)].type # "neutral") = f.isModel
         /\ ~Opens(f.text, strict)
        THEN Appended(f)
        ELSE Created(f)

\* two subject fragments, then a system fragment that opens a tag
Scenario ==
  /\ Len(frags) = 3
  /\ \A i \in 1..3 : frags[i].text # <<>>
  /\ ~frags[1].isModel /\ ~HasBracket(frags[1].text)
  /\ ~frags[2].isModel /\ ~HasBracket(frags[2].text)
  /\ frags[3].isModel /\ OpensTag(frags[3].text)

ScenarioTurns ==
  Scenario =>
    /\ Len(logs) = 3
    /\ logs[2].message = frags[1].text \o frags[2].text
    /\ logs[3].message = frags[3].text

Tier(p) ==
  IF p > 75 THEN "deception"
  ELSE IF p >= 50 THEN "system"
  ELSE "truth"

\* the last turn is a system turn with a tag, and the effect has run on it
Extracted ==
  /\ effect = 0
  /\ logs # <<>>
  /\ LastIsModel
  /\ HasTag(logs[Len(logs)].message)

\* C14: the classification assigns every score of 0..100 exactly one tier
\* (deception above 75, suspicious, stored as 'system', from 50 to 75, truth
\* below 50; 49 truth, 50 and 75 suspicious, 76 deception), the dashboard's
\* flags use the same thresholds, and a turn the extractor has processed
\* carries the tier of its tag's score, which is the stored score.
C14_ScoreTiers ==
  /\ \A p \in 0..100 :
       /\ NewType(p) = Tier(p)
       /\ IsDanger(p) <=> NewType(p) = "deception"
       /\ IsSuspicious(p) <=> NewType(p) = "system"
       /\ (~IsDanger(p) /\ ~IsSuspicious(p)) <=> NewType(p) = "truth"
  /\ NewType(49) = "truth" /\ NewType(50) = "system"
  /\ NewType(75) = "system" /\ NewType(76) = "deception"
  /\ Extracted =>
       /\ lieProbability = TagScore(logs[Len(logs)].message)
       /\ logs[Len(logs)].type = Tier(lieProbability)
       /\ IsDanger(lieProbability) <=> logs[Len(logs)].type = "deception"
       /\ IsSuspicious(lieProbability) <=> logs[Len(logs)].type = "system"

\* the extractor has processed a turn at each of the thresholds 49, 75 and 76
C14_Witness ==
  /\ Extracted
  /\ lieProbability = 75
  /\ logs[Len(logs)].type = "system"
  /\ \E i, j \in DOMAIN logs :
       /\ logs[i].type = "truth" /\ HasTag(logs[i].message)
       /\ TagScore(logs[i].message) = 49
       /\ logs[j].type = "deception" /\ HasTag(logs[j].message)
       /\ TagScore(logs[j].message) = 76

\* ---------------------------------------------------------------- C15
\* this step is a run of the effect on [logs]
ExtractorRuns == seen # <<>> /\ seen' = <<>>

\* what one run of the extractor leaves for a system turn with a tag: log l,
\* score p, current-analysis text a
FixpointOf(l, p, a) ==
  (l # <<>> /\ l[Len(l)].type # "neutral" /\ HasTag(l[Len(l)].message)) =>
    /\ p = TagScore(l[Len(l)].message)
    /\ l[Len(l)].type = Tier(p)
    /\ a = IF CleanMsg(l[Len(l)].message) = <<>>
              THEN ANALYZING
              ELSE CleanMsg(l[Len(l)].message)

Fixpoint == FixpointOf(logs, lieProbability, lastAnalysis)

\* this step is a run of the effect on a log that has not changed since the
\* render the effect belongs to
RunsOnCurrentLog == ExtractorRuns /\ logs = seen[1]

\* C15: a run of the extractor on a log that has not changed since it was
\* rendered leaves the latest turn's tier, the score and the current-analysis
\* text at the values of the turn's tag, and a run on a log that already has
\* them changes none of the three and does not schedule the extractor again:
\* after its own tier update the extractor runs once more and stops, so it
\* never runs more than twice in a row.
C15_ExtractorIdempotent ==
  /\ [][RunsOnCurrentLog => FixpointOf(logs', lieProbability', lastAnalysis')]_vars
  /\ [][(RunsOnCurrentLog /\ Fixpoint) =>
          (UNCHANGED <<logs, lieProbability, lastAnalysis>> /\ effect' = 0)]_vars
  /\ [](effect <= 2)

\* the extractor updated the tier of the latest turn and its second run has
\* stopped
C15_Witness ==
  /\ effect = 0
  /\ logs # <<>>
  /\ logs[Len(logs)].type \in {"truth", "deception"}
  /\ logs[Len(logs)].id.k = "rnd"
  /\ lastAnalysis # STANDBY

\* ---------------------------------------------------------------- C16
\* the latest turn gives the extractor nothing to parse
NothingToParse ==
  \/ logs = <<>>
  \/ ~LastIsModel
  \/ ~HasTag(logs[Len(logs)].message)

\* C16: a run of the extractor on a log whose latest turn has no parseable tag,
\* or is a subject turn, changes neither the score, nor the current-analysis
\* text, nor any turn; the score changes only when the extractor processes a
\* turn with a tag.
C16_NoTagNoChange ==
  /\ [][(ExtractorRuns /\ NothingToParse) =>
          UNCHANGED <<logs, lieProbability, lastAnalysis>>]_vars
  /\ [][lieProbability' # lieProbability => (ExtractorRuns /\ ~NothingToParse)]_vars


\* ---------------------------------------------------------------- C17
\* this step starts a capture pipeline: a processor is connected or a timer set
PipelineStarts == ~(procOn' \subseteq procOn) \/ ~(timers' \subseteq timers)

\* this step is the open event of channel k
OpenEvent(k) == chan[k] = "connecting" /\ chan'[k] = "open"

\* this step calls session.sendRealtimeInput
Sends == Len(sent') = Len(sent) + 1

\* C17: a capture pipeline starts only in the open event of a channel; every
\* sendRealtimeInput call is made on the session of a promise that has
\* resolved, the one read at capture; and a send callback waits exactly as long
\* as its promise is pending.
C17_SendsAfterHandshake ==
  /\ [][PipelineStarts =>
          \E k \in Ids : /\ OpenEvent(k)
                         /\ procOn' \subseteq procOn \cup {k}
                         /\ timers' \subseteq timers \cup {k}]_vars
  /\ [][Sends => LET e == sent'[Len(sent')]
                 IN /\ prom[e.ch] = "resolved"
                    /\ chan[e.ch] \in {"open", "closing", "closed"}
                    /\ caps[e.n].p = e.ch]_vars
  /\ [](\A i \in 1..Len(blocked) :
          blocked[i].pc = "send" => prom[blocked[i].p] = "pending")

\* a block captured while the handshake was pending has been taken by the
\* channel after the handshake completed
C17_Witness ==
  \E i \in 1..Len(sent) :
    /\ sent[i].ok
    /\ caps[sent[i].n].st = "pending"
    /\ caps[sent[i].n].kind = "audio"

\* ---------------------------------------------------------------- C18
\* endSession() has been invoked and has not returned
StopInFlight == \E i \in 1..Len(InFlight) : InFlight[i].kind = "stop"

\* this step processes an audio block or a video sampling tick
Captures == Len(caps') = Len(caps) + 1

\* C18: from the moment endSession() yields control the sampling timers are
\* cleared and the processors disconnected, and while it is in flight no block
\* or tick is processed and nothing is handed to a channel.
C18_StopCancelsAtOnce ==
  /\ [](StopInFlight => (procOn = {} /\ timers = {}))
  /\ [][StopInFlight => (~Captures /\ ~Sends)]_vars

\* ---------------------------------------------------------------- C19
\* this step runs a send callback whose transmission fails: the promise is
\* rejected, or the call is made on a channel that is not open
SendFails ==
  /\ mq # <<>>
  /\ Cur.pc = "send"
  /\ mq' = Tail(mq)
  /\ prom[Cur.p] # "resolved" \/ chan[Cur.p] # "open"

\* C19: a failed transmission changes neither the lifecycle state, the log, the
\* service's fields nor the pipelines, and the callbacks queued behind it stay
\* queued.
C19_SendFailureSwallowed ==
  [][SendFails => UNCHANGED <<appVars, svcVars, envVars, blocked, pending, logVars>>]_vars

\* a transmission failed on a channel that was no longer open, and the next
\* block was handed to the channel after it
C19_Witness ==
  /\ Len(sent) = 2
  /\ ~sent[1].ok
  /\ sent[1].n < sent[2].n

\* ---------------------------------------------------------------- C20
\* the i-th and the j-th sendRealtimeInput call carry audio blocks of the same
\* pipeline, the i-th call being the earlier one
AudioPair(i, j) ==
  /\ i < j
  /\ caps[sent[i].n].kind = "audio"
  /\ caps[sent[j].n].kind = "audio"
  /\ caps[sent[i].n].by = caps[sent[j].n].by

\* C20: of two audio blocks captured by the pipeline of one session, the one
\* captured first is passed to sendRealtimeInput first.
C20_AudioInCaptureOrder ==
  \A i, j \in 1..Len(sent) : AudioPair(i, j) => sent[i].n < sent[j].n

\* ---------------------------------------------------------------- C21
\* this step is a startSession() invocation that returned at the guard
StartIgnored == nIgnored' = nIgnored + 1

\* this step is a startSession() invocation that passed the guard
StartPassed == nStarts' = nStarts + 1

\* C21: startSession() invoked while status is CONNECTING returns at the guard:
\* no invocation passes the guard in that state, and the one that returns
\* changes neither the App state, the service, the devices and channels nor
\* the frames in flight.
C21_StartWhileConnectingNoOp ==
  /\ [][StartPassed => status # "CONNECTING"]_vars
  /\ [][StartIgnored =>
          (status = "CONNECTING" /\
           UNCHANGED <<appVars, svcVars, envVars, mq, blocked, pending>>)]_vars

\* startSession() was invoked while a start was connecting (its handshake
\* pending) and returned at the guard
C21_Witness ==
  /\ nIgnored = 1
  /\ status = "CONNECTING"
  /\ \E k \in Ids : prom[k] = "pending"

\* ---------------------------------------------------------------- C22
\* C22: no two entries of the log have the same id.
C22_UniqueIds ==
  \A i, j \in 1..Len(logs) : i # j => logs[i].id # logs[j].id

\* ---------------------------------------------------------------- C23
\* the turn the running effect scanned: the last one of the log it rendered
Scanned == seen[1][Len(seen[1])]

\* entry i of the log was created by a fragment of the subject
SubjectTurn(i) == logs[i].id.k = "rnd" /\ ~frags[logs[i].id.n].isModel

\* C23: a run of the extractor changes the tier of no turn but the one it
\* scanned, and a turn created by a subject fragment is always neutral.
C23_TierOfScannedTurnOnly ==
  /\ [][ExtractorRuns =>
          \A i \in 1..Len(logs) :
            logs'[i].type # logs[i].type =>
              (i = Len(seen[1]) /\ logs[i].id = Scanned.id)]_vars
  /\ [](\A i \in 1..Len(logs) : SubjectTurn(i) => logs[i].type = "neutral")

\* ---------------------------------------------------------------- C24
\* C24: a chunk is started only when no interruption has been handled since it
\* was received, and a chunk received before an interruption that has been
\* handled is not in the live set.
C24_NoPlayAcrossInterruption ==
  /\ \A i \in 1..Len(sched) : sched[i].rcvEp = sched[i].ep
  /\ \A i \in 1..Len(sched) : sched[i].id \in sources => sched[i].rcvEp = ep

\* ---------------------------------------------------------------- C25
\* this step begins a session: connect() creates the contexts and opens the
\* channel (lines 42-107)
SessionBegins == \E k \in Ids : prom[k] = "none" /\ prom'[k] = "pending"

\* C25: a session begins with an empty live set and the cursor at 0.
C25_FreshScheduler ==
  [][SessionBegins => (sources' = {} /\ nextStartTime' = 0)]_vars

\* ---------------------------------------------------------------- C26
\* endSession() has completed, no startSession() has been invoked since, and
\* none is in flight
IdleAfterStop == status = "IDLE" /\ nStops > 0 /\ Quiet

\* C26: once endSession() has completed and nothing is in flight, every step
\* that is not an invocation of startSession() leaves the status IDLE and the
\* log as it is.
C26_IdleUntilStart ==
  [][(IdleAfterStop /\ ~StartPassed) => (status' = "IDLE" /\ logs' = logs)]_vars

\* ---------------------------------------------------------------- C27
\* entry i of the log was created by a fragment of the model
ModelTurn(i) == logs[i].id.k = "rnd" /\ frags[logs[i].id.n].isModel

\* every render is committed and every effect has run
AtRest == effect = 0 /\ seen = <<>>

\* C27: once the renders and effects that were due have run, every turn of the
\* model whose text has a tag carries the tier of the tag's score.  (Only the
\* last turn of the log is ever changed, so a turn that is not processed when
\* the log is at rest and is not the last one is never processed.)
C27_TaggedTurnsProcessed ==
  AtRest =>
    \A i \in 1..Len(logs) :
      (ModelTurn(i) /\ HasTag(logs[i].message)) =>
        logs[i].type = Tier(TagScore(logs[i].message))
====
